---- MODULE Spec2Model ----
(***************************************************************************)
(* Job orchestration of Sienn-AI: the submission route (start_finetuning), *)
(* the Celery task finetune_model with its autoretry policy, the Trainer   *)
(* (FinetuningService.finetune) as seen through its progress callbacks,    *)
(* the status route and the cleanup task cleanup_old_jobs, over the jobs   *)
(* and datasets tables and the model artifact directories.                 *)
(*                                                                         *)
(* Spec  : every store operation succeeds; the broker may refuse a         *)
(*         message, the Trainer may raise, a dataset row may be gone.      *)
(* SpecF : store operations of the worker may raise, which is the only    *)
(*         way an exception leaves finetune_model and so the only way      *)
(*         Celery's autoretry fires.                                       *)
(* SpecC : several jobs and the cleanup sweep, every operation succeeding. *)
(* SpecCF: SpecC plus deletions of the sweep that raise.                   *)
(* SpecL : Spec with worker processes that do not stop in mid-task.        *)
(* SpecS : one job, the cleanup sweep and the download, export and test    *)
(*         requests.                                                       *)
(* SpecP : the hyperparameters of one request from start_finetuning to     *)
(*         finetune, and create_lora_config, over a set of requests.       *)
(***************************************************************************)
EXTENDS Integers, Sequences, FiniteSets

VARIABLES
    jobs,       \* the jobs table: job id -> row, or NoRow
    datasets,   \* ids of the rows of the datasets table
    dirs,       \* job ids whose model artifact directory data/models/<id> exists
    queue,      \* broker: message [id, retries] -> number of copies queued
    subPc,      \* per job id: position of the start_finetuning request that owns it
    nextId,     \* the next fresh job id (uuid4 never repeats)
    ws,         \* per worker: the execution attempt it runs
    hist,       \* per job id: what its attempts did so far (history)
    plan,       \* per job id: what the Trainer does on the k-th attempt
    args,       \* per job id: the dataset_id argument of its task
    cl,         \* the cleanup task: position, rows still to sweep, uncommitted deletes
    lastRead,   \* what the polling client's previous status read returned
    rejected,   \* dataset ids of the start_finetuning requests answered 404
    hp,         \* one request's hyperparameters on their way to the Trainer
    lastServe   \* what the last download, export or test request was answered

vars == <<jobs, datasets, dirs, queue, subPc, nextId, ws, hist, plan, args, cl, lastRead, rejected,
          hp, lastServe>>

---------------------------------------------------------------------------
\* Bounds of the model: job ids issued under Spec, job ids issued under SpecF,
\* job ids issued under SpecC and SpecCF, processes of the worker pool.
MaxJobs == 1
MaxRetryJobs == 1
MaxSweepJobs == 2
NumWorkers == 2

\* max_retries of the finetune_model task decorator.
max_retries == 3

Largest(S) == CHOOSE n \in S : \A m \in S : m <= n

JobIds == 1..Largest({MaxJobs, MaxRetryJobs, MaxSweepJobs})
Workers == 1..NumWorkers
DatasetIds == {"d1"}

\* The dataset_id values a request may carry: an uploaded one, and one that was
\* never uploaded.
RequestDatasetIds == DatasetIds \cup {"d0"}
Errors == {"e1", "e2"}
NoRow == [status |-> "none"]
NoSweep == [pc |-> "idle", todo |-> {}, deleted |-> {}, errors |-> {}, cutoff |-> 0,
            removed |-> {}]
NoRead == [status |-> "none", pstatus |-> "none"]
NoCall == [pc |-> "none"]
NoServe == [pc |-> "none"]

\* Callbacks whose second and third values are swapped.
ProgressStepsSwapped == <<10, 30, 20, 90, 100>>

\* The values the Trainer passes to progress_callback, in call order.
ProgressSteps == <<10, 20, 30, 90, 100>>

\* Index of the first callback made after output_path.mkdir(parents, exist_ok).
MkdirStep == 4

NAttempts == max_retries + 1

\* What the Trainer does on attempts 1..NAttempts of one job.
TrainerPlans ==
    { <<"ok", "ok", "ok", "ok">>,
      <<"raise", "raise", "ok", "ok">>,
      <<"raise", "raise", "raise", "raise">> }

Terminal == {"completed", "failed"}

Idle == [pc |-> "idle", job |-> 0, retries |-> 0, k |-> 0, err |-> "", ran |-> FALSE]

NoHist == [attempts |-> 0, starts |-> 0, called |-> 0, trainerRaised |-> FALSE, err |-> "",
           noDataset |-> FALSE, outcome |-> "none", enqueueRaised |-> FALSE,
           response |-> 0, datasetExisted |-> FALSE, rowCreated |-> FALSE]

Msgs == [id : JobIds, retries : 0..max_retries]

---------------------------------------------------------------------------
\* Store operations.

\* A row inserted with status "running".
create_job_record_running(j, d, t) ==
    [jobs EXCEPT ![j] = [status |-> "running", progress |-> 0, message |-> <<"submitted">>,
                          meta |-> 0, dataset_id |-> d, created_at |-> t,
                          fresh |-> TRUE]]

\* INSERT INTO jobs (...) VALUES (id, dataset_id, 'pending', 0.0, 'Job submitted...',
\*                          created_at, created_at)
\* Field fresh tells whether the row's updated_at is at or after the time of the
\* row's latest status change; the INSERT sets updated_at to the creation time.
create_job_record(j, d, t) ==
    [jobs EXCEPT ![j] = [status |-> "pending", progress |-> 0, message |-> <<"submitted">>,
                          meta |-> 0, dataset_id |-> d, created_at |-> t,
                          fresh |-> TRUE]]

\* update_job_status whose UPDATE is never issued.
update_job_status_lost(j, s, m) == jobs

\* UPDATE jobs SET status = ?, message = ? WHERE id = ?
\* updated_at keeps its old value, which is older than a change of status made now.
update_job_status(j, s, m) ==
    IF jobs[j] = NoRow THEN jobs
    ELSE [jobs EXCEPT ![j].status = s, ![j].message = m,
                      ![j].fresh = IF s # jobs[j].status THEN FALSE ELSE @]

\* An UPDATE that stores an empty message.
UpdateJobStatusNoMessage(j, s, p, m) ==
    IF jobs[j] = NoRow THEN jobs
    ELSE [jobs EXCEPT ![j].status = s, ![j].progress = p, ![j].message = <<>>,
                      ![j].fresh = TRUE]

\* UPDATE jobs SET status = ?, progress = ?, message = ?, updated_at = ? WHERE id = ?
UpdateJobStatus(j, s, p, m) ==
    IF jobs[j] = NoRow THEN jobs
    ELSE [jobs EXCEPT ![j].status = s, ![j].progress = p, ![j].message = m,
                      ![j].fresh = TRUE]

\* UPDATE jobs SET meta = ? WHERE id = ?   (meta.model_path = data/models/<id>)
SetMeta(j) ==
    IF jobs[j] = NoRow THEN jobs
    ELSE [jobs EXCEPT ![j].meta = j]

\* A dispatch that publishes the message twice.
EnqueueTwice(q, m) == [q EXCEPT ![m] = @ + 2]

\* The broker with one more copy of message m.
Enqueue(q, m) == [q EXCEPT ![m] = @ + 1]

Dequeue(q, m) == [q EXCEPT ![m] = @ - 1]

---------------------------------------------------------------------------
Init ==
    /\ jobs = [j \in JobIds |-> NoRow]
    /\ datasets = DatasetIds
    /\ dirs = {}
    /\ queue = [m \in Msgs |-> 0]
    /\ subPc = [j \in JobIds |-> "none"]
    /\ nextId = 1
    /\ ws = [w \in Workers |-> Idle]
    /\ hist = [j \in JobIds |-> NoHist]
    /\ plan = [j \in JobIds |-> <<"ok", "ok", "ok", "ok">>]
    /\ args = [j \in JobIds |-> ""]
    /\ cl = NoSweep
    /\ lastRead = NoRead
    /\ rejected = {}
    /\ hp = NoCall
    /\ lastServe = NoServe

---------------------------------------------------------------------------
\* A dataset check that accepts every id.
dataset_exists_always(d) == TRUE

\* SELECT id FROM datasets WHERE id = ?   ... fetchone() is not None
dataset_exists(d) == d \in datasets

\* start_finetuning: dataset_exists() is False; HTTPException(status_code=404)
\* is raised before anything is written or dispatched.
SubmitNotFound(d) ==
    /\ ~dataset_exists(d)
    /\ d \notin rejected
    /\ rejected' = rejected \cup {d}
    /\ UNCHANGED <<jobs, datasets, dirs, queue, subPc, nextId, ws, hist, plan, args, cl, lastRead, hp, lastServe>>

\* start_finetuning: the dataset exists, a fresh id is drawn, the row is created.
SubmitCreate(d, tp, limit) ==
    /\ nextId <= limit
    /\ nextId \in JobIds
    /\ dataset_exists(d)
    /\ jobs' = create_job_record(nextId, d, nextId)
    /\ subPc' = [subPc EXCEPT ![nextId] = "created"]
    /\ plan' = [plan EXCEPT ![nextId] = tp]
    /\ args' = [args EXCEPT ![nextId] = d]
    /\ hist' = [hist EXCEPT ![nextId].datasetExisted = (d \in datasets),
                             ![nextId].rowCreated = TRUE]
    /\ nextId' = nextId + 1
    /\ UNCHANGED <<datasets, dirs, queue, ws, cl, lastRead, rejected, hp, lastServe>>

\* A request that goes on to the dispatch although create_job_record returned False.
SubmitCreateFailsIgnored(d, limit) ==
    /\ nextId <= limit
    /\ nextId \in JobIds
    /\ dataset_exists(d)
    /\ subPc' = [subPc EXCEPT ![nextId] = "created"]
    /\ args' = [args EXCEPT ![nextId] = d]
    /\ hist' = [hist EXCEPT ![nextId].datasetExisted = (d \in datasets)]
    /\ nextId' = nextId + 1
    /\ UNCHANGED <<jobs, datasets, dirs, queue, ws, plan, cl, lastRead, rejected, hp, lastServe>>

\* start_finetuning: the INSERT or its commit raised, create_job_record returned
\* False: HTTPException(status_code=500) is raised, the id drawn is dropped.
SubmitCreateFails(d, limit) ==
    /\ nextId <= limit
    /\ nextId \in JobIds
    /\ dataset_exists(d)
    /\ subPc' = [subPc EXCEPT ![nextId] = "refused"]
    /\ hist' = [hist EXCEPT ![nextId].datasetExisted = (d \in datasets),
                             ![nextId].response = 500]
    /\ nextId' = nextId + 1
    /\ UNCHANGED <<jobs, datasets, dirs, queue, ws, plan, args, cl, lastRead, rejected, hp, lastServe>>

\* start_finetuning: apply_async(task_id = job_id) accepted by the broker; the
\* request ends with StartFinetuningResponse(job_id, status = "pending").
SubmitEnqueue(j) ==
    /\ subPc[j] = "created"
    /\ queue' = Enqueue(queue, [id |-> j, retries |-> 0])
    /\ subPc' = [subPc EXCEPT ![j] = "done"]
    /\ hist' = [hist EXCEPT ![j].response = 200]
    /\ UNCHANGED <<jobs, datasets, dirs, nextId, ws, plan, args, cl, lastRead, rejected, hp, lastServe>>

\* A dispatch failure after which the row is deleted.
SubmitEnqueueFailsDeletes(j) ==
    /\ subPc[j] = "created"
    /\ jobs' = [jobs EXCEPT ![j] = NoRow]
    /\ subPc' = [subPc EXCEPT ![j] = "done"]
    /\ hist' = [hist EXCEPT ![j].enqueueRaised = TRUE, ![j].response = 500]
    /\ UNCHANGED <<datasets, dirs, queue, nextId, ws, plan, args, cl, lastRead, rejected, hp, lastServe>>

\* start_finetuning: apply_async raised; the row is marked failed and
\* HTTPException(status_code=500, detail=...) is raised: the response carries
\* no job id.
SubmitEnqueueFails(j) ==
    /\ subPc[j] = "created"
    /\ jobs' = update_job_status(j, "failed", <<"Failed to submit job">>)
    /\ subPc' = [subPc EXCEPT ![j] = "done"]
    /\ hist' = [hist EXCEPT ![j].enqueueRaised = TRUE, ![j].response = 500]
    /\ UNCHANGED <<datasets, dirs, queue, nextId, ws, plan, args, cl, lastRead, rejected, hp, lastServe>>

---------------------------------------------------------------------------
\* The Celery worker pool and the finetune_model task.

JobOf(w) == ws[w].job

At(w, pc) == ws[w].pc = pc

Goto(w, pc) == [ws EXCEPT ![w].pc = pc]

\* The exception e was raised inside the try block of _run_finetuning.
Caught(w, e) == [ws EXCEPT ![w].pc = "handler", ![w].err = e]

\* The task function ended: by return ("returned") or by an exception ("raised").
TaskEnds(w, how) ==
    /\ ws' = [ws EXCEPT ![w] = Idle]
    /\ hist' = [hist EXCEPT ![JobOf(w)].outcome = how]

\* A task that goes straight to its final write.
PickUpAtComplete(w, m) ==
    /\ At(w, "idle")
    /\ \A v \in Workers : v < w => ~At(v, "idle")
    /\ queue[m] > 0
    /\ queue' = Dequeue(queue, m)
    /\ ws' = [ws EXCEPT ![w] = [pc |-> "complete", job |-> m.id, retries |-> m.retries,
                                 k |-> 0, err |-> "", ran |-> FALSE]]
    /\ hist' = [hist EXCEPT ![m.id] = [@ EXCEPT !.attempts = @ + 1, !.called = 0,
                                          !.trainerRaised = FALSE, !.err = "",
                                          !.noDataset = FALSE, !.outcome = "running"]]
    /\ UNCHANGED <<jobs, datasets, dirs, subPc, nextId, plan, args, cl, lastRead, rejected, hp, lastServe>>

\* A worker of the pool takes a message; the message is acknowledged on receipt.
PickUp(w, m) ==
    /\ At(w, "idle")
    /\ \A v \in Workers : v < w => ~At(v, "idle")
    /\ queue[m] > 0
    /\ queue' = Dequeue(queue, m)
    /\ ws' = [ws EXCEPT ![w] = [pc |-> "start", job |-> m.id, retries |-> m.retries,
                                 k |-> 0, err |-> "", ran |-> FALSE]]
    /\ hist' = [hist EXCEPT ![m.id] = [@ EXCEPT !.attempts = @ + 1, !.called = 0,
                                          !.trainerRaised = FALSE, !.err = "",
                                          !.noDataset = FALSE, !.outcome = "running"]]
    /\ UNCHANGED <<jobs, datasets, dirs, subPc, nextId, plan, args, cl, lastRead, rejected, hp, lastServe>>

\* An attempt that goes on without the write of "running".
WriteRunningSkipped(w) ==
    /\ At(w, "start")
    /\ ws' = Goto(w, "dataset")
    /\ UNCHANGED <<jobs, datasets, dirs, queue, subPc, nextId, hist, plan, args, cl, lastRead, rejected, hp, lastServe>>

\* An initial write that keeps the progress the row has.
WriteRunningKeepsProgress(w) ==
    /\ At(w, "start")
    /\ jobs' = UpdateJobStatus(JobOf(w), "running", jobs[JobOf(w)].progress, <<"initializing">>)
    /\ ws' = [ws EXCEPT ![w].pc = "dataset", ![w].ran = TRUE]
    /\ hist' = [hist EXCEPT ![JobOf(w)].starts = @ + 1]
    /\ UNCHANGED <<datasets, dirs, queue, subPc, nextId, plan, args, cl, lastRead, rejected, hp, lastServe>>

\* _update_job_status("running", 0.0, "Initializing fine-tuning...")
WriteRunning(w) ==
    /\ At(w, "start")
    /\ jobs' = UpdateJobStatus(JobOf(w), "running", 0, <<"initializing">>)
    /\ ws' = [ws EXCEPT ![w].pc = "dataset", ![w].ran = TRUE]
    /\ hist' = [hist EXCEPT ![JobOf(w)].starts = @ + 1]
    /\ UNCHANGED <<datasets, dirs, queue, subPc, nextId, plan, args, cl, lastRead, rejected, hp, lastServe>>

\* _get_dataset_path() found the row: the output directory is made and
\* finetuning_service.finetune is called in the executor.
DatasetFound(w) ==
    /\ At(w, "dataset")
    /\ args[JobOf(w)] \in datasets
    /\ dirs' = dirs \cup {JobOf(w)}
    /\ ws' = Goto(w, "train")
    /\ hist' = [hist EXCEPT ![JobOf(w)].called = @ + 1]
    /\ UNCHANGED <<jobs, datasets, queue, subPc, nextId, plan, args, cl, lastRead, rejected, hp, lastServe>>

\* A missing dataset row that does not stop the attempt: finetune is called.
DatasetMissingIgnored(w) ==
    /\ At(w, "dataset")
    /\ args[JobOf(w)] \notin datasets
    /\ ws' = Goto(w, "train")
    /\ hist' = [hist EXCEPT ![JobOf(w)].noDataset = TRUE, ![JobOf(w)].called = @ + 1]
    /\ UNCHANGED <<jobs, datasets, dirs, queue, subPc, nextId, plan, args, cl, lastRead, rejected, hp, lastServe>>

\* _get_dataset_path() returned None.
DatasetMissing(w) ==
    /\ At(w, "dataset")
    /\ args[JobOf(w)] \notin datasets
    /\ ws' = Goto(w, "nodataset")
    /\ hist' = [hist EXCEPT ![JobOf(w)].noDataset = TRUE]
    /\ UNCHANGED <<jobs, datasets, dirs, queue, subPc, nextId, plan, args, cl, lastRead, rejected, hp, lastServe>>

\* _update_job_status("failed", 0.0, "Dataset ... not found"); return {...}
WriteNoDataset(w) ==
    /\ At(w, "nodataset")
    /\ jobs' = UpdateJobStatus(JobOf(w), "failed", 0, <<"Dataset not found">>)
    /\ TaskEnds(w, "returned")
    /\ UNCHANGED <<datasets, dirs, queue, subPc, nextId, plan, args, cl, lastRead, rejected, hp, lastServe>>

\* finetune calls progress_callback(p, m): asyncio.run(_update_job_status("running", p, m))
TrainerCallback(w) ==
    /\ At(w, "train")
    /\ ws[w].k < Len(ProgressSteps)
    /\ jobs' = UpdateJobStatus(JobOf(w), "running", ProgressSteps[ws[w].k + 1],
                               <<"progress", ws[w].k + 1>>)
    /\ dirs' = IF ws[w].k + 1 >= MkdirStep THEN dirs \cup {JobOf(w)} ELSE dirs
    /\ ws' = [ws EXCEPT ![w].k = @ + 1, ![w].ran = TRUE]
    /\ UNCHANGED <<datasets, queue, subPc, nextId, hist, plan, args, cl, lastRead, rejected, hp, lastServe>>

\* finetune returns its metadata after the last callback.
TrainerReturns(w) ==
    /\ At(w, "train")
    /\ ws[w].k = Len(ProgressSteps)
    /\ plan[JobOf(w)][ws[w].retries + 1] = "ok"
    /\ ws' = Goto(w, "meta")
    /\ UNCHANGED <<jobs, datasets, dirs, queue, subPc, nextId, hist, plan, args, cl, lastRead, rejected, hp, lastServe>>

\* finetune raises e (logged and re-raised by its own except clause).
TrainerRaises(w, e) ==
    /\ At(w, "train")
    /\ plan[JobOf(w)][ws[w].retries + 1] = "raise"
    /\ ws' = Caught(w, e)
    /\ hist' = [hist EXCEPT ![JobOf(w)].trainerRaised = TRUE, ![JobOf(w)].err = e]
    /\ UNCHANGED <<jobs, datasets, dirs, queue, subPc, nextId, plan, args, cl, lastRead, rejected, hp, lastServe>>

\* An attempt that goes to its final write without storing the metadata.
WriteMetaSkipped(w) ==
    /\ At(w, "meta")
    /\ ws' = Goto(w, "complete")
    /\ UNCHANGED <<jobs, datasets, dirs, queue, subPc, nextId, hist, plan, args, cl, lastRead, rejected, hp, lastServe>>

\* UPDATE jobs SET meta = {**metadata, "model_path": ...}
WriteMeta(w) ==
    /\ At(w, "meta")
    /\ jobs' = SetMeta(JobOf(w))
    /\ ws' = Goto(w, "complete")
    /\ UNCHANGED <<datasets, dirs, queue, subPc, nextId, hist, plan, args, cl, lastRead, rejected, hp, lastServe>>

\* A final write made with the default progress of _update_job_status, 0.0.
WriteCompletedDefaultProgress(w) ==
    /\ At(w, "complete")
    /\ jobs' = UpdateJobStatus(JobOf(w), "completed", 0, <<"completed">>)
    /\ TaskEnds(w, "returned")
    /\ UNCHANGED <<datasets, dirs, queue, subPc, nextId, plan, args, cl, lastRead, rejected, hp, lastServe>>

\* _update_job_status("completed", 100.0, ...); return {...}
WriteCompleted(w) ==
    /\ At(w, "complete")
    /\ jobs' = UpdateJobStatus(JobOf(w), "completed", 100, <<"completed">>)
    /\ TaskEnds(w, "returned")
    /\ UNCHANGED <<datasets, dirs, queue, subPc, nextId, plan, args, cl, lastRead, rejected, hp, lastServe>>

\* An except clause that persists "failed" and then re-raises, so that Celery
\* retries the task.
HandleExceptionReraise(w) ==
    /\ At(w, "handler")
    /\ jobs' = UpdateJobStatus(JobOf(w), "failed", 0, <<"Fine-tuning failed", ws[w].err>>)
    /\ queue' = IF ws[w].retries < max_retries
                THEN [queue EXCEPT ![[id |-> JobOf(w), retries |-> ws[w].retries + 1]] = @ + 1]
                ELSE queue
    /\ TaskEnds(w, "raised")
    /\ UNCHANGED <<datasets, dirs, subPc, nextId, plan, args, cl, lastRead, rejected, hp, lastServe>>

\* An except clause that ends the task without a write.
HandleExceptionSilent(w) ==
    /\ At(w, "handler")
    /\ TaskEnds(w, "returned")
    /\ UNCHANGED <<jobs, datasets, dirs, queue, subPc, nextId, plan, args, cl, lastRead, rejected, hp, lastServe>>

\* except Exception as e: _update_job_status("failed", 0.0, "Fine-tuning failed: " + str(e));
\* return {...}: the task ends normally.
HandleException(w) ==
    /\ At(w, "handler")
    /\ jobs' = UpdateJobStatus(JobOf(w), "failed", 0, <<"Fine-tuning failed", ws[w].err>>)
    /\ TaskEnds(w, "returned")
    /\ UNCHANGED <<datasets, dirs, queue, subPc, nextId, plan, args, cl, lastRead, rejected, hp, lastServe>>

Worker ==
    \/ \E w \in Workers, m \in Msgs : PickUp(w, m)
    \/ \E w \in Workers : WriteRunning(w)
    \/ \E w \in Workers : DatasetFound(w)
    \/ \E w \in Workers : DatasetMissing(w)
    \/ \E w \in Workers : WriteNoDataset(w)
    \/ \E w \in Workers : TrainerCallback(w)
    \/ \E w \in Workers : TrainerReturns(w)
    \/ \E w \in Workers, e \in Errors : TrainerRaises(w, e)
    \/ \E w \in Workers : WriteMeta(w)
    \/ \E w \in Workers : WriteCompleted(w)
    \/ \E w \in Workers : HandleException(w)

---------------------------------------------------------------------------
\* get_training_status: one SELECT of the row. A client polls the job it
\* submitted and keeps what the previous poll returned.
ReadStatus(j) ==
    /\ jobs[j] # NoRow
    /\ lastRead # NoRead => lastRead.job = j
    /\ lastRead' = [job |-> j, status |-> jobs[j].status, progress |-> jobs[j].progress,
                    epoch |-> hist[j].starts,
                    pstatus |-> lastRead.status,
                    pprogress |-> IF lastRead = NoRead THEN 0 ELSE lastRead.progress,
                    pepoch |-> IF lastRead = NoRead THEN 0 ELSE lastRead.epoch]
    /\ lastRead' # lastRead
    /\ UNCHANGED <<jobs, datasets, dirs, queue, subPc, nextId, ws, hist, plan, args, cl, rejected, hp, lastServe>>

---------------------------------------------------------------------------
\* cleanup_old_jobs(days): cutoff_date = now - days; created_at is the id's issue time.

\* A SELECT without the condition on status.
OldJobsAnyStatus(cutoff) ==
    {j \in JobIds : jobs[j] # NoRow /\ jobs[j].created_at < cutoff}

\* SELECT id ... WHERE (status = 'completed' OR status = 'failed') AND created_at < cutoff
OldJobs(cutoff) ==
    {j \in JobIds : /\ jobs[j] # NoRow
                    /\ jobs[j].status \in Terminal
                    /\ jobs[j].created_at < cutoff}

CleanupSelect(cutoff) ==
    /\ cl.pc = "idle"
    /\ cl' = [pc |-> "sweep", todo |-> OldJobs(cutoff), deleted |-> {}, errors |-> {},
              cutoff |-> cutoff, removed |-> {}]
    /\ OldJobs(cutoff) # {}
    /\ UNCHANGED <<jobs, datasets, dirs, queue, subPc, nextId, ws, hist, plan, args, lastRead, rejected, hp, lastServe>>

\* One turn of the loop: rmtree of the model directory, then DELETE FROM jobs
\* inside the sweep's transaction (not yet committed).
CleanupJob(j) ==
    /\ cl.pc = "sweep"
    /\ j \in cl.todo
    /\ \A i \in cl.todo : j <= i
    /\ dirs' = dirs \ {j}
    /\ cl' = [cl EXCEPT !.todo = @ \ {j}, !.deleted = @ \cup {j},
                        !.removed = @ \cup ({j} \cap dirs)]
    /\ UNCHANGED <<jobs, datasets, queue, subPc, nextId, ws, hist, plan, args, lastRead, rejected, hp, lastServe>>

\* A sweep that ends without its commit: the DELETEs are rolled back.
CleanupCommitLost ==
    /\ cl.pc = "sweep"
    /\ cl.todo = {}
    /\ cl' = NoSweep
    /\ UNCHANGED <<jobs, datasets, dirs, queue, subPc, nextId, ws, hist, plan, args, lastRead, rejected, hp, lastServe>>

\* conn.commit(): the deleted rows disappear for everyone.
CleanupCommit ==
    /\ cl.pc = "sweep"
    /\ cl.todo = {}
    /\ jobs' = [j \in JobIds |-> IF j \in cl.deleted THEN NoRow ELSE jobs[j]]
    /\ cl' = NoSweep
    /\ UNCHANGED <<datasets, dirs, queue, subPc, nextId, ws, hist, plan, args, lastRead, rejected, hp, lastServe>>

Cleanup ==
    \/ \E c \in 1..(nextId) : CleanupSelect(c)
    \/ \E j \in JobIds : CleanupJob(j)
    \/ CleanupCommit

---------------------------------------------------------------------------
\* A row of the datasets table is deleted (the schema declares no cascade).
DatasetDeleted(d) ==
    /\ d \in datasets
    /\ datasets' = datasets \ {d}
    /\ UNCHANGED <<jobs, dirs, queue, subPc, nextId, ws, hist, plan, args, cl, lastRead, rejected, hp, lastServe>>

Running ==
    \/ \E j \in JobIds : SubmitEnqueue(j)
    \/ \E j \in JobIds : SubmitEnqueueFails(j)
    \/ Worker
    \/ \E j \in JobIds : ReadStatus(j)
    \/ Cleanup
    \/ \E d \in DatasetIds : DatasetDeleted(d)

Next ==
    \/ \E d \in RequestDatasetIds, tp \in TrainerPlans : SubmitCreate(d, tp, MaxJobs)
    \/ Running

Spec == Init /\ [][Next]_vars

\* The steps of the task that worker w is executing.
Execute(w) ==
    \/ WriteRunning(w)
    \/ DatasetFound(w)
    \/ DatasetMissing(w)
    \/ WriteNoDataset(w)
    \/ TrainerCallback(w)
    \/ TrainerReturns(w)
    \/ \E e \in Errors : TrainerRaises(w, e)
    \/ WriteMeta(w)
    \/ WriteCompleted(w)
    \/ HandleException(w)

\* Spec with worker processes that keep running: a started task is taken to
\* its end, the Trainer call returning or raising.
SpecL == Spec /\ \A w \in Workers : WF_vars(Execute(w))

---------------------------------------------------------------------------
\* Store operations of the worker that raise (sqlite3.OperationalError, e.g.
\* "database is locked"). Inside the try block the exception goes to the
\* except clause; raised by the except clause's own write it leaves the task,
\* and autoretry_for = (Exception,) makes Celery retry it.

WriteRunningFails(w) ==
    /\ At(w, "start")
    /\ ws' = Caught(w, "store")
    /\ UNCHANGED <<jobs, datasets, dirs, queue, subPc, nextId, hist, plan, args, cl, lastRead, rejected, hp, lastServe>>

WriteNoDatasetFails(w) ==
    /\ At(w, "nodataset")
    /\ ws' = Caught(w, "store")
    /\ UNCHANGED <<jobs, datasets, dirs, queue, subPc, nextId, hist, plan, args, cl, lastRead, rejected, hp, lastServe>>

\* The callback's write raises inside finetune, which re-raises it.
TrainerCallbackFails(w) ==
    /\ At(w, "train")
    /\ ws[w].k < Len(ProgressSteps)
    /\ ws' = Caught(w, "store")
    /\ hist' = [hist EXCEPT ![JobOf(w)].trainerRaised = TRUE, ![JobOf(w)].err = "store"]
    /\ UNCHANGED <<jobs, datasets, dirs, queue, subPc, nextId, plan, args, cl, lastRead, rejected, hp, lastServe>>

WriteMetaFails(w) ==
    /\ At(w, "meta")
    /\ ws' = Caught(w, "store")
    /\ UNCHANGED <<jobs, datasets, dirs, queue, subPc, nextId, hist, plan, args, cl, lastRead, rejected, hp, lastServe>>

WriteCompletedFails(w) ==
    /\ At(w, "complete")
    /\ ws' = Caught(w, "store")
    /\ UNCHANGED <<jobs, datasets, dirs, queue, subPc, nextId, hist, plan, args, cl, lastRead, rejected, hp, lastServe>>

\* The except clause's write raises: the exception leaves finetune_model and
\* Celery publishes the task again with retries + 1.
HandleExceptionFailsRetry(w) ==
    /\ At(w, "handler")
    /\ ws[w].retries < max_retries
    /\ queue' = Enqueue(queue, [id |-> JobOf(w), retries |-> ws[w].retries + 1])
    /\ TaskEnds(w, "raised")
    /\ UNCHANGED <<jobs, datasets, dirs, subPc, nextId, plan, args, cl, lastRead, rejected, hp, lastServe>>

\* The same with the retries used up: Celery gives the task up.
HandleExceptionFailsGiveUp(w) ==
    /\ At(w, "handler")
    /\ ws[w].retries >= max_retries
    /\ TaskEnds(w, "raised")
    /\ UNCHANGED <<jobs, datasets, dirs, queue, subPc, nextId, plan, args, cl, lastRead, rejected, hp, lastServe>>

StoreFault ==
    \/ \E w \in Workers : WriteRunningFails(w)
    \/ \E w \in Workers : WriteNoDatasetFails(w)
    \/ \E w \in Workers : TrainerCallbackFails(w)
    \/ \E w \in Workers : WriteMetaFails(w)
    \/ \E w \in Workers : WriteCompletedFails(w)
    \/ \E w \in Workers : HandleExceptionFailsRetry(w)
    \/ \E w \in Workers : HandleExceptionFailsGiveUp(w)

NextF ==
    \/ \E d \in RequestDatasetIds, tp \in TrainerPlans : SubmitCreate(d, tp, MaxRetryJobs)
    \/ Running
    \/ StoreFault

SpecF == Init /\ [][NextF]_vars

---------------------------------------------------------------------------
\* download_model, export_model and test_model: get_job_metadata reads the row,
\* the handler checks it, then looks for the model directory and reads it.
\* lastServe is the request in progress, or the last one answered: the
\* operation, the job id, the status get_job_metadata returned ("none": no
\* row), the HTTP status code and whether the model directory was read.
Operations == {"download", "export", "test"}

Answer(op, j, status, code) ==
    [pc |-> "done", op |-> op, job |-> j, status |-> status, model_path |-> 0,
     code |-> code, read |-> FALSE]

\* A handler without the test of the status.
ServeRequestUnchecked(op, j) ==
    /\ lastServe.pc # "artifact"
    /\ lastServe' =
          IF jobs[j] = NoRow THEN Answer(op, j, "none", 404)
          ELSE IF jobs[j].meta = 0 THEN Answer(op, j, jobs[j].status, 500)
          ELSE [pc |-> "artifact", op |-> op, job |-> j, status |-> jobs[j].status,
                model_path |-> jobs[j].meta, code |-> 0, read |-> FALSE]
    /\ lastServe' # lastServe
    /\ UNCHANGED <<jobs, datasets, dirs, queue, subPc, nextId, ws, hist, plan, args, cl, lastRead, rejected, hp>>

\* job_data = get_job_metadata(job_id); not job_data: 404; status != "completed":
\* 400; not model_path: 500.
ServeRequest(op, j) ==
    /\ lastServe.pc # "artifact"
    /\ lastServe' =
          IF jobs[j] = NoRow THEN Answer(op, j, "none", 404)
          ELSE IF jobs[j].status # "completed" THEN Answer(op, j, jobs[j].status, 400)
          ELSE IF jobs[j].meta = 0 THEN Answer(op, j, jobs[j].status, 500)
          ELSE [pc |-> "artifact", op |-> op, job |-> j, status |-> jobs[j].status,
                model_path |-> jobs[j].meta, code |-> 0, read |-> FALSE]
    /\ lastServe' # lastServe
    /\ UNCHANGED <<jobs, datasets, dirs, queue, subPc, nextId, ws, hist, plan, args, cl, lastRead, rejected, hp>>

\* model_dir does not exist: 404; else the files under model_dir are read
\* (zipped, exported, or loaded for generation) and the result is returned.
ServeArtifact ==
    /\ lastServe.pc = "artifact"
    /\ lastServe' = IF lastServe.model_path \in dirs
                    THEN [lastServe EXCEPT !.pc = "done", !.code = 200, !.read = TRUE]
                    ELSE [lastServe EXCEPT !.pc = "done", !.code = 404]
    /\ UNCHANGED <<jobs, datasets, dirs, queue, subPc, nextId, ws, hist, plan, args, cl, lastRead, rejected, hp>>

\* One job, the cleanup sweep and the requests for the job's model.
NextS ==
    \/ \E d \in RequestDatasetIds, tp \in TrainerPlans : SubmitCreate(d, tp, MaxJobs)
    \/ \E j \in JobIds : SubmitEnqueue(j)
    \/ \E j \in JobIds : SubmitEnqueueFails(j)
    \/ Worker
    \/ Cleanup
    \/ \E d \in DatasetIds : DatasetDeleted(d)
    \/ \E op \in Operations, j \in JobIds : ServeRequest(op, j)
    \/ ServeArtifact

SpecS == Init /\ [][NextS]_vars

----------------------------------------------------------------------------
\* Several jobs, the requests for unknown datasets and the cleanup sweep.
NextC ==
    \/ \E d \in RequestDatasetIds, tp \in TrainerPlans : SubmitCreate(d, tp, MaxSweepJobs)
    \/ \E d \in RequestDatasetIds : SubmitNotFound(d)
    \/ \E d \in RequestDatasetIds : SubmitCreateFails(d, MaxSweepJobs)
    \/ \E j \in JobIds : SubmitEnqueue(j)
    \/ \E j \in JobIds : SubmitEnqueueFails(j)
    \/ Worker
    \/ Cleanup
    \/ \E d \in DatasetIds : DatasetDeleted(d)

SpecC == Init /\ [][NextC]_vars

\* A turn of the loop that raises and leaves the sweep.
CleanupJobFailsAborts(j, gone) ==
    /\ cl.pc = "sweep"
    /\ j \in cl.todo
    /\ \A i \in cl.todo : j <= i
    /\ dirs' = IF gone THEN dirs \ {j} ELSE dirs
    /\ cl' = NoSweep
    /\ UNCHANGED <<jobs, datasets, queue, subPc, nextId, ws, hist, plan, args, lastRead, rejected, hp, lastServe>>

\* One turn of the loop in which shutil.rmtree (gone = FALSE: nothing was
\* removed) or the DELETE that follows it (gone = TRUE) raises: the except
\* clause of the loop body appends to stats["errors"] and the loop goes on.
CleanupJobFails(j, gone) ==
    /\ cl.pc = "sweep"
    /\ j \in cl.todo
    /\ \A i \in cl.todo : j <= i
    /\ dirs' = IF gone THEN dirs \ {j} ELSE dirs
    /\ cl' = [cl EXCEPT !.todo = @ \ {j}, !.errors = @ \cup {j},
                        !.removed = IF gone THEN @ \cup ({j} \cap dirs) ELSE @]
    /\ UNCHANGED <<jobs, datasets, queue, subPc, nextId, ws, hist, plan, args, lastRead, rejected, hp, lastServe>>

NextCF ==
    \/ NextC
    \/ \E j \in JobIds, gone \in BOOLEAN : CleanupJobFails(j, gone)

SpecCF == Init /\ [][NextCF]_vars

---------------------------------------------------------------------------
\* Hyperparameters: start_finetuning -> task message -> finetune_model ->
\* FinetuningService.finetune, and create_lora_config.
\* Model names are sequences of characters; learning rates are in units of
\* 1e-5; None is 0, a value the request's validators (gt=0, ge=1, ge=128)
\* keep from being supplied.
None == 0

N_gpt2 == <<"g", "p", "t", "2">>
N_gpt2_xl == <<"g", "p", "t", "2", "-", "x", "l">>
N_distilgpt2 == <<"d", "i", "s", "t", "i", "l", "g", "p", "t", "2">>
N_GPT2 == <<"G", "P", "T", "2">>
N_TinyLlama == <<"T", "i", "n", "y", "L", "l", "a", "m", "a">>
N_gpt2_llama == <<"g", "p", "t", "2", "-", "l", "l", "a", "m", "a">>
N_llama_phi == <<"l", "l", "a", "m", "a", "-", "p", "h", "i">>
N_phi_mistral == <<"p", "h", "i", "-", "m", "i", "s", "t", "r", "a", "l">>
N_mistral == <<"m", "i", "s", "t", "r", "a", "l">>
N_opt == <<"o", "p", "t">>

ModelNames == {N_gpt2, N_gpt2_xl, N_distilgpt2, N_GPT2, N_TinyLlama, N_gpt2_llama,
               N_llama_phi, N_phi_mistral, N_mistral, N_opt}

\* Values a request may carry for each optional field (None: omitted).
LearningRates == {None, 1, 100}
BatchSizes == {None, 1, 32}
MaxLengths == {None, 128, 2048}

Requests == [model_name : ModelNames, learning_rate : LearningRates,
             batch_size : BatchSizes, max_length : MaxLengths]

\* The keys of MODEL_CONFIGS that the model carries.
ConfiguredNames == {N_gpt2, N_gpt2_xl, N_distilgpt2}

\* MODEL_CONFIGS[name]: batch_size, max_length, learning_rate of the profile.
MODEL_CONFIGS(name) ==
    CASE name = N_gpt2 -> [batch_size |-> 8, max_length |-> 512, learning_rate |-> 30]
      [] name = N_gpt2_xl -> [batch_size |-> 1, max_length |-> 512, learning_rate |-> 5]
      [] name = N_distilgpt2 -> [batch_size |-> 16, max_length |-> 512, learning_rate |-> 50]

\* get_model_config: the profile of a configured name, else the default one.
get_model_config(name) ==
    IF name \in ConfiguredNames THEN MODEL_CONFIGS(name)
    ELSE [batch_size |-> 4, max_length |-> 512, learning_rate |-> 20]

\* The JSON form of a task argument, and back.
JsonString(v) == [t |-> "string", s |-> v, n |-> 0]
JsonNumber(v) == IF v = None THEN [t |-> "null", s |-> <<>>, n |-> 0]
                 ELSE [t |-> "number", s |-> <<>>, n |-> v]
FromJson(x) == IF x.t = "null" THEN None ELSE IF x.t = "number" THEN x.n ELSE x.s

\* A dispatch that leaves out the optional arguments.
TaskArgsShort(r) ==
    << JsonString(<<"j">>), JsonString(<<"d">>), JsonString(r.model_name) >>

\* args = [job_id, dataset_id, model_name, learning_rate, num_epochs, batch_size, max_length]
TaskArgs(r) ==
    << JsonString(<<"j">>), JsonString(<<"d">>), JsonString(r.model_name),
       JsonNumber(r.learning_rate), JsonNumber(5), JsonNumber(r.batch_size),
       JsonNumber(r.max_length) >>

\* The parameter at position i of finetune_model, or its default when the
\* message carries fewer arguments.
Param(a, i, default) == IF Len(a) >= i THEN FromJson(a[i]) ELSE default

\* def finetune_model(self, job_id, dataset_id, model_name="gpt2",
\*     learning_rate=2e-5, num_epochs=3, batch_size=4, max_length=512)
TaskParams(a) ==
    [model_name |-> Param(a, 3, N_gpt2), learning_rate |-> Param(a, 4, 2),
     batch_size |-> Param(a, 6, 4), max_length |-> Param(a, 7, 512)]

\* finetune: "if learning_rate is None: learning_rate = model_config.learning_rate",
\* the same for batch_size and max_length.
TrainerValues(k) ==
    LET model_config == get_model_config(k.model_name)
    IN [learning_rate |-> IF k.learning_rate = None THEN model_config.learning_rate
                          ELSE k.learning_rate,
        batch_size |-> IF k.batch_size = None THEN model_config.batch_size
                       ELSE k.batch_size,
        max_length |-> IF k.max_length = None THEN model_config.max_length
                       ELSE k.max_length]

\* model_name.lower()
LowerChar(c) ==
    CASE c = "G" -> "g" [] c = "P" -> "p" [] c = "T" -> "t" [] c = "L" -> "l" [] OTHER -> c

Lower(name) == [i \in 1..Len(name) |-> LowerChar(name[i])]

\* pat in name
Contains(name, pat) ==
    \E i \in 0..(Len(name) - Len(pat)) : SubSeq(name, i + 1, i + Len(pat)) = pat

F_gpt2 == <<"g", "p", "t", "2">>
F_llama == <<"l", "l", "a", "m", "a">>
F_tinyllama == <<"t", "i", "n", "y", "l", "l", "a", "m", "a">>
F_phi == <<"p", "h", "i">>
F_mistral == <<"m", "i", "s", "t", "r", "a", "l">>

LoraConfig(rank, modules) == [r |-> rank, lora_alpha |-> rank * 2, target_modules |-> modules]

NoLora == [r |-> 0, lora_alpha |-> 0, target_modules |-> {}]

\* A create_lora_config that tests for llama before gpt2.
create_lora_config_llama_first(model_name) ==
    LET model_lower == Lower(model_name)
    IN IF Contains(model_lower, F_llama)
       THEN LoraConfig(16, {"q_proj", "k_proj", "v_proj", "o_proj", "gate_proj", "up_proj",
                            "down_proj"})
       ELSE IF Contains(model_lower, F_gpt2)
       THEN LoraConfig(32, {"c_attn", "c_proj", "c_fc"})
       ELSE LoraConfig(16, {"q_proj", "v_proj", "o_proj"})

create_lora_config(model_name) ==
    LET model_lower == Lower(model_name)
    IN IF Contains(model_lower, F_gpt2)
       THEN LoraConfig(32, {"c_attn", "c_proj", "c_fc"})
       ELSE IF Contains(model_lower, F_llama) \/ Contains(model_lower, F_tinyllama)
       THEN LoraConfig(16, {"q_proj", "k_proj", "v_proj", "o_proj", "gate_proj", "up_proj",
                            "down_proj"})
       ELSE IF Contains(model_lower, F_phi)
       THEN LoraConfig(32, {"Wqkv", "out_proj", "fc1", "fc2"})
       ELSE IF Contains(model_lower, F_mistral)
       THEN LoraConfig(16, {"q_proj", "k_proj", "v_proj", "o_proj", "gate_proj", "up_proj",
                            "down_proj"})
       ELSE LoraConfig(16, {"q_proj", "v_proj", "o_proj"})

NoParams == [model_name |-> <<>>, learning_rate |-> None, batch_size |-> None,
             max_length |-> None]

NoValues == [learning_rate |-> None, batch_size |-> None, max_length |-> None]

\* A validated StartFinetuningRequest has arrived.
InitP ==
    /\ jobs = [j \in JobIds |-> NoRow]
    /\ datasets = DatasetIds
    /\ dirs = {}
    /\ queue = [m \in Msgs |-> 0]
    /\ subPc = [j \in JobIds |-> "none"]
    /\ nextId = 1
    /\ ws = [w \in Workers |-> Idle]
    /\ hist = [j \in JobIds |-> NoHist]
    /\ plan = [j \in JobIds |-> <<"ok", "ok", "ok", "ok">>]
    /\ args = [j \in JobIds |-> ""]
    /\ cl = NoSweep
    /\ lastRead = NoRead
    /\ rejected = {}
    /\ lastServe = NoServe
    /\ \E r \in Requests :
          hp = [pc |-> "request", req |-> r, msg |-> <<>>, params |-> NoParams,
                used |-> NoValues, lora |-> NoLora]

Quiet == UNCHANGED <<jobs, datasets, dirs, queue, subPc, nextId, ws, hist, plan, args, cl,
                     lastRead, rejected, lastServe>>

\* start_finetuning: finetune_model.apply_async(args = [...]).
ApplyAsync ==
    /\ hp.pc = "request"
    /\ hp' = [hp EXCEPT !.pc = "message", !.msg = TaskArgs(hp.req)]
    /\ Quiet

\* The worker calls finetune_model with the arguments of the message.
FinetuneModelCalled ==
    /\ hp.pc = "message"
    /\ hp' = [hp EXCEPT !.pc = "task", !.params = TaskParams(hp.msg)]
    /\ Quiet

\* _run_finetuning calls finetuning_service.finetune with the task's parameters.
FinetuneCalled ==
    /\ hp.pc = "task"
    /\ hp' = [hp EXCEPT !.pc = "trainer", !.used = TrainerValues(hp.params)]
    /\ Quiet

\* create_lora_config(model_name) is called.
CreateLoraConfigCalled ==
    /\ hp.pc # "none"
    /\ hp.lora = NoLora
    /\ hp' = [hp EXCEPT !.lora = create_lora_config(hp.req.model_name)]
    /\ Quiet

NextP == ApplyAsync \/ FinetuneModelCalled \/ FinetuneCalled \/ CreateLoraConfigCalled

SpecP == InitP /\ [][NextP]_vars

---------------------------------------------------------------------------
\* What the claims speak of.

Exists(j) == jobs[j] # NoRow

Queued(j) == \E m \in Msgs : m.id = j /\ queue[m] > 0

Executing(j) == \E w \in Workers : ~At(w, "idle") /\ JobOf(w) = j

\* The task of job j was dispatched, has run at least once and nothing of it is
\* left: no message queued, no worker on it.
Ended(j) ==
    /\ subPc[j] = "done"
    /\ hist[j].attempts >= 1
    /\ ~Queued(j)
    /\ ~Executing(j)

ScenarioC == <<"raise", "raise", "ok", "ok">>
ScenarioD == <<"raise", "raise", "raise", "raise">>

---------------------------------------------------------------------------
\* C1 (as stated): in every step, a row that is pending is not completed or
\* failed after the step, i.e. no row goes from pending to a terminal status
\* without having been running in between.
C1_PendingNeverTerminal ==
    [][\A j \in JobIds :
          (Exists(j) /\ jobs[j].status = "pending") => jobs'[j].status \notin Terminal]_vars

\* C1 (amended): a pending row never becomes completed in one step, and it
\* becomes failed in one step only by a write made before any Trainer run: the
\* dispatch-failure write of start_finetuning, or the except clause of an
\* attempt whose own initial write of "running" raised.
C1_PendingToTerminalOnlyEarlyFailure ==
    [][\A j \in JobIds :
          (Exists(j) /\ jobs[j].status = "pending" /\ jobs'[j].status \in Terminal)
          => /\ jobs'[j].status = "failed"
             /\ jobs'[j].message \in {<<"Failed to submit job">>, <<"Fine-tuning failed", "store">>}
             /\ hist[j].called = 0]_vars

C1_Witness ==
    \E j \in JobIds : /\ Exists(j)
                      /\ jobs[j].status = "failed"
                      /\ jobs[j].message = <<"Failed to submit job">>
                      /\ hist[j].attempts = 0

C3_TwoFailuresThenSuccess ==
    \A j \in JobIds :
        (Ended(j) /\ Exists(j) /\ plan[j] = ScenarioC /\ ~hist[j].noDataset)
        => /\ jobs[j].status = "completed"
           /\ hist[j].attempts = 3

C5_FailureIsReraised ==
    \A j \in JobIds :
        (hist[j].trainerRaised /\ hist[j].outcome # "running" /\ Exists(j))
        => /\ jobs[j].status = "failed"
           /\ jobs[j].message = <<"Fine-tuning failed", hist[j].err>>
           /\ hist[j].outcome = "raised"

\* C6: an attempt that found no dataset row has ended by return, without a
\* Trainer call and without a retry queued, and the row (until cleanup removes
\* it) is failed with the message "Dataset ... not found".
C6_MissingDatasetIsPermanent ==
    \A j \in JobIds :
        (hist[j].noDataset /\ hist[j].outcome # "running")
        => /\ hist[j].outcome = "returned"
           /\ hist[j].called = 0
           /\ ~Queued(j)
           /\ Exists(j) => /\ jobs[j].status = "failed"
                           /\ jobs[j].message = <<"Dataset not found">>

C6_Witness ==
    \E j \in JobIds : /\ hist[j].noDataset
                      /\ hist[j].outcome = "returned"
                      /\ Exists(j)
                      /\ jobs[j].status = "failed"

\* C7 (as stated): of two consecutive status reads of a job that both returned
\* running, the second returned a progress not below the first.
C7_ProgressMonotone ==
    (lastRead.status = "running" /\ lastRead.pstatus = "running")
    => lastRead.progress >= lastRead.pprogress

\* C7 (amended): of two consecutive status reads of a job that both returned
\* running, with no execution attempt having written its initial "running,
\* progress 0" between them, the second returned a progress not below the
\* first; a retry restarts the progress from 0.
C7_ProgressMonotoneWithinAttempt ==
    (lastRead.status = "running" /\ lastRead.pstatus = "running"
        /\ lastRead.epoch = lastRead.pepoch)
    => lastRead.progress >= lastRead.pprogress

C7_Witness ==
    /\ lastRead.status = "running"
    /\ lastRead.pstatus = "running"
    /\ lastRead.epoch = lastRead.pepoch
    /\ lastRead.epoch >= 2
    /\ lastRead.progress > lastRead.pprogress

\* C8 (as stated): every completed row has a meta with a model_path, and the
\* directory the model_path names exists.
C8_CompletedHasArtifact ==
    \A j \in JobIds :
        (Exists(j) /\ jobs[j].status = "completed")
        => /\ jobs[j].meta # 0
           /\ jobs[j].meta \in dirs

\* C9: in every step, a row that is completed or failed is left as it is,
\* unless the step is the cleanup's commit, which removes it.
C9_TerminalRowsAreImmutable ==
    [][\A j \in JobIds :
          (Exists(j) /\ jobs[j].status \in Terminal)
          => (jobs'[j] = jobs[j] \/ (jobs'[j] = NoRow /\ cl.pc = "sweep"))]_vars

C9_Witness ==
    \E j \in JobIds : /\ Exists(j)
                      /\ jobs[j].status \in Terminal
                      /\ hist[j].attempts >= 2
                      /\ Ended(j)

C11_DispatchFailureStillReturnsJobId ==
    \A j \in JobIds :
        (subPc[j] = "done" /\ hist[j].enqueueRaised)
        => /\ hist[j].response = 200
           /\ Exists(j) => jobs[j].status = "failed"

\* C12: every job row was created by a request whose dataset_id matched a row
\* of the datasets table, and the step that answers 404 to a request whose
\* dataset_id matches no row leaves the jobs table, the queue and the job ids
\* issued as they were.
C12_UnknownDatasetIsRejected ==
    /\ [](\A j \in JobIds : subPc[j] # "none" => hist[j].datasetExisted)
    /\ [][rejected' # rejected
          => /\ \E d \in rejected' \ rejected : d \notin datasets
             /\ jobs' = jobs
             /\ queue' = queue
             /\ nextId' = nextId
             /\ subPc' = subPc]_vars

C12_Witness ==
    /\ "d0" \in rejected
    /\ nextId = 1
    /\ \A j \in JobIds : ~Exists(j)
    /\ \A m \in Msgs : queue[m] = 0

\* C13: while a request has created its row and not yet dispatched, the row is
\* pending with progress 0 and no task of the job is queued or executing; and
\* from the return of a successful submission until a worker takes the task,
\* exactly one message is queued for the job, the first delivery of the task
\* whose id is the job id, the row still pending with progress 0.
C13_RowThenExactlyOneTask ==
    \A j \in JobIds :
        /\ Exists(j) => j < nextId
        /\ subPc[j] = "created"
           => /\ Exists(j)
              /\ jobs[j].status = "pending"
              /\ jobs[j].progress = 0
              /\ ~Queued(j)
              /\ ~Executing(j)
              /\ hist[j].response = 0
        /\ (subPc[j] = "done" /\ hist[j].response = 200 /\ hist[j].attempts = 0)
           => /\ \A m \in Msgs :
                    queue[m] = IF m = [id |-> j, retries |-> 0] THEN 1 ELSE
                               IF m.id = j THEN 0 ELSE queue[m]
              /\ Exists(j)
              /\ jobs[j].status = "pending"
              /\ jobs[j].progress = 0
              /\ jobs[j].dataset_id = args[j]

C13_Witness ==
    \E j \in JobIds : /\ subPc[j] = "done"
                      /\ hist[j].response = 200
                      /\ hist[j].attempts = 0
                      /\ queue[[id |-> j, retries |-> 0]] = 1
                      /\ jobs[j].status = "pending"

\* C14: every step that removes a model directory, issues the sweep's DELETE
\* for a row or removes a row is a step of a cleanup sweep, and the job it
\* concerns is, at that moment, completed or failed and created before the
\* sweep's cutoff; so a job that is pending or running keeps its row and its
\* directory.
C14_SweepTakesOnlyOldTerminalJobs ==
    [][\A j \in JobIds :
          (\/ (j \in dirs /\ j \notin dirs')
           \/ (Exists(j) /\ jobs'[j] = NoRow)
           \/ (j \in cl'.deleted /\ j \notin cl.deleted))
          => /\ cl.pc = "sweep"
             /\ Exists(j)
             /\ jobs[j].status \in Terminal
             /\ jobs[j].created_at < cl.cutoff]_vars

\* A completed job is swept while another job, also older than the cutoff, is
\* running and keeps its row and its directory.
C14_Witness ==
    \E i, j \in JobIds :
        /\ cl.pc = "sweep"
        /\ i \in cl.deleted
        /\ jobs[i].status = "completed"
        /\ i \notin dirs
        /\ Exists(j)
        /\ jobs[j].status = "running"
        /\ jobs[j].created_at < cl.cutoff
        /\ j \in dirs
        /\ j \notin cl.todo \cup cl.deleted

\* C15: in the state a sweep's commit leaves, the rows a second sweep with the
\* same cutoff would select (completed or failed, created before the cutoff)
\* include none of the jobs the first sweep selected: the second sweep deletes
\* nothing unless a job became completed or failed after the first SELECT.
C15_SecondSweepFindsNothing ==
    [][(cl.pc = "sweep" /\ cl'.pc = "idle")
          => \A j \in JobIds :
                (/\ jobs'[j] # NoRow
                 /\ jobs'[j].status \in Terminal
                 /\ jobs'[j].created_at < cl.cutoff)
                => (j \notin cl.deleted /\ jobs[j].created_at < cl.cutoff)]_vars

\* A sweep has committed: a swept row is gone, another job is still there and
\* no completed or failed row remains for a second sweep, whatever its cutoff.
C15_Witness ==
    /\ cl.pc = "idle"
    /\ \E i, j \in JobIds : /\ subPc[i] = "done"
                            /\ ~Exists(i)
                            /\ Exists(j)
    /\ OldJobs(nextId) = {}

\* C16: a turn of the sweep's loop that raises puts the job in the errors of
\* the sweep and leaves the sweep going with the other selected jobs still to
\* do; and the sweep commits only when every selected job was handled, the
\* rows of all those whose turn did not raise being removed by the commit.
C16_SweepGoesOnAfterAnError ==
    [][/\ \A j \in JobIds :
             (j \in cl.todo /\ j \notin cl'.todo /\ j \notin cl'.deleted)
             => /\ j \in cl'.errors
                /\ cl'.pc = "sweep"
                /\ cl'.todo = cl.todo \ {j}
                /\ cl'.deleted = cl.deleted
                /\ jobs' = jobs
       /\ (cl.pc = "sweep" /\ cl'.pc = "idle")
             => /\ cl.todo = {}
                /\ \A j \in cl.deleted : jobs'[j] = NoRow
                /\ \A j \in cl.errors : jobs'[j] = jobs[j] /\ Exists(j)]_vars

\* The turn of one job raised and a job handled after it was deleted.
C16_Witness ==
    /\ cl.pc = "sweep"
    /\ cl.todo = {}
    /\ \E i \in cl.errors, j \in cl.deleted : i < j /\ j \notin dirs

\* C17: a step that removes a row is the commit of a cleanup sweep that
\* deleted it, and a step that adds a row adds the one row of the job id that
\* the submission draws.
C17_OnlyCleanupRemovesRows ==
    [][\A j \in JobIds :
          /\ (Exists(j) /\ jobs'[j] = NoRow)
             => (cl.pc = "sweep" /\ j \in cl.deleted /\ cl'.pc = "idle")
          /\ (~Exists(j) /\ jobs'[j] # NoRow)
             => (j = nextId /\ nextId' = nextId + 1 /\ subPc[j] = "none")]_vars

\* Submission, execution with its progress updates and a status read have
\* acted on a job whose row is still there.
C17_Witness ==
    \E j \in JobIds : /\ Exists(j)
                      /\ jobs[j].status = "completed"
                      /\ hist[j].response = 200
                      /\ lastRead.status = "completed"

\* C18: every row whose status is failed has a message that is not empty.
C18_FailedHasMessage ==
    \A j \in JobIds :
        (Exists(j) /\ jobs[j].status = "failed")
        => /\ Len(jobs[j].message) > 0
           /\ jobs[j].message[1] # ""

\* A row failed by the except clause of an attempt whose Trainer raised.
C18_Witness ==
    \E j \in JobIds : /\ Exists(j)
                      /\ jobs[j].status = "failed"
                      /\ hist[j].trainerRaised
                      /\ jobs[j].message = <<"Fine-tuning failed", hist[j].err>>

\* C19 (as stated): no task is executed more than 1 + max_retries times, and a
\* job whose task ended by an exception with nothing left queued has used all
\* its executions and its row is failed.
C19_ExhaustedRetriesLeaveFailed ==
    \A j \in JobIds :
        /\ hist[j].attempts <= NAttempts
        /\ (Ended(j) /\ hist[j].outcome = "raised" /\ Exists(j))
           => /\ hist[j].attempts = NAttempts
              /\ jobs[j].status = "failed"

\* C20: every step that makes a row completed is the final write of an
\* execution attempt that has itself written running, and finds the row
\* running.
C20_CompletedFollowsRunning ==
    [][\A j \in JobIds :
          (Exists(j) /\ jobs[j].status # "completed" /\ jobs'[j].status = "completed")
          => /\ jobs[j].status = "running"
             /\ \E w \in Workers : /\ JobOf(w) = j
                                   /\ At(w, "complete")
                                   /\ ws[w].ran]_vars

\* A retry, after an attempt that had left the row running, completed the job.
C20_Witness ==
    \E j \in JobIds : /\ Exists(j)
                      /\ jobs[j].status = "completed"
                      /\ hist[j].attempts >= 2
                      /\ hist[j].starts >= 2

\* C21: the learning_rate, batch_size and max_length the Trainer works with
\* are, each of them, the value the request supplied, or when the request
\* omitted it the value of the model's profile in MODEL_CONFIGS, the default
\* profile when the model name is not a key of MODEL_CONFIGS.
C21_OmittedMeansProfileValue ==
    hp.pc = "trainer"
    => LET profile == IF hp.req.model_name \in ConfiguredNames
                      THEN MODEL_CONFIGS(hp.req.model_name)
                      ELSE [batch_size |-> 4, max_length |-> 512, learning_rate |-> 20]
       IN /\ hp.used.learning_rate = IF hp.req.learning_rate = None
                                     THEN profile.learning_rate ELSE hp.req.learning_rate
          /\ hp.used.batch_size = IF hp.req.batch_size = None
                                  THEN profile.batch_size ELSE hp.req.batch_size
          /\ hp.used.max_length = IF hp.req.max_length = None
                                  THEN profile.max_length ELSE hp.req.max_length

\* A request for a configured model that omits learning_rate and batch_size and
\* supplies max_length has reached the Trainer.
C21_Witness ==
    /\ hp.pc = "trainer"
    /\ hp.req.model_name = N_distilgpt2
    /\ hp.req.learning_rate = None
    /\ hp.req.batch_size = None
    /\ hp.req.max_length = 2048
    /\ hp.used = [learning_rate |-> 50, batch_size |-> 16, max_length |-> 2048]

\* C22: the LoRA configuration of a model name is that of the first family, in
\* the order gpt2, llama, phi, mistral, whose name the lower-cased model name
\* contains, else the generic one: gpt2 has rank 32 and c_attn among its target
\* modules, llama rank 16 and q_proj; and lora_alpha is twice the rank.
C22_LoraFamilyInOrder ==
    hp.lora # NoLora
    => LET n == Lower(hp.req.model_name)
           gpt2 == Contains(n, F_gpt2)
           llama == ~gpt2 /\ Contains(n, F_llama)
           phi == ~gpt2 /\ ~llama /\ Contains(n, F_phi)
           mistral == ~gpt2 /\ ~llama /\ ~phi /\ Contains(n, F_mistral)
       IN /\ hp.lora.lora_alpha = 2 * hp.lora.r
          /\ gpt2 => (hp.lora.r = 32 /\ "c_attn" \in hp.lora.target_modules)
          /\ llama => (hp.lora.r = 16 /\ "q_proj" \in hp.lora.target_modules)
          /\ phi => (hp.lora.r = 32 /\ "Wqkv" \in hp.lora.target_modules)
          /\ mistral => (hp.lora.r = 16 /\ "q_proj" \in hp.lora.target_modules)
          /\ (~gpt2 /\ ~llama /\ ~phi /\ ~mistral)
                => (hp.lora.r = 16 /\ hp.lora.target_modules = {"q_proj", "v_proj", "o_proj"})

\* The configuration of a name that contains both gpt2 and llama was made.
C22_Witness ==
    /\ hp.pc # "none"
    /\ hp.req.model_name = N_gpt2_llama
    /\ hp.lora.r = 32
    /\ hp.lora.lora_alpha = 64
    /\ "c_attn" \in hp.lora.target_modules

\* C23: every execution attempt, a retry too, begins at the first step with no
\* callback counted; the write it makes at that step sets running with
\* progress 0; and the progress of a row rises only by a write of an attempt
\* that has itself written running with progress 0.
C23_AttemptRestartsFromStepOne ==
    [][/\ \A w \in Workers :
             /\ (At(w, "idle") /\ ws'[w].pc # "idle")
                => (ws'[w].pc = "start" /\ ws'[w].k = 0 /\ ~ws'[w].ran)
             /\ (At(w, "start") /\ jobs'[JobOf(w)] # jobs[JobOf(w)])
                => /\ jobs'[JobOf(w)].status = "running"
                   /\ jobs'[JobOf(w)].progress = 0
                   /\ ws'[w].ran
       /\ \A j \in JobIds :
             (Exists(j) /\ jobs'[j] # NoRow /\ jobs'[j].progress > jobs[j].progress)
             => \E w \in Workers : /\ JobOf(w) = j
                                   /\ ws[w].ran
                                   /\ jobs'[j].progress = ProgressSteps[ws'[w].k]]_vars

\* A retry has written running with progress 0 on a row that an earlier
\* attempt had taken to its metadata write.
C23_Witness ==
    \E w \in Workers :
        /\ At(w, "dataset")
        /\ ws[w].retries >= 1
        /\ jobs[JobOf(w)].meta # 0
        /\ jobs[JobOf(w)].status = "running"
        /\ jobs[JobOf(w)].progress = 0

\* C24: an attempt that is resolving the dataset, inside the Trainer or past it
\* has written running; while it is inside the Trainer the row is running and
\* the Trainer was called once in the attempt, never more; and an attempt at
\* its write of completed has written the metadata, so that a completed row
\* has its metadata.
C24_StepsPersistedInOrder ==
    /\ \A w \in Workers :
          /\ ws[w].pc \in {"dataset", "nodataset", "train", "meta", "complete"} => ws[w].ran
          /\ ws[w].pc \in {"start", "dataset", "nodataset"} => hist[JobOf(w)].called = 0
          /\ ws[w].pc \in {"train", "meta", "complete"} => hist[JobOf(w)].called = 1
          /\ At(w, "train") => (Exists(JobOf(w)) /\ jobs[JobOf(w)].status = "running")
          /\ At(w, "complete") => (Exists(JobOf(w)) /\ jobs[JobOf(w)].meta = JobOf(w))
    /\ \A j \in JobIds :
          /\ hist[j].called <= 1
          /\ (Exists(j) /\ jobs[j].status = "completed") => jobs[j].meta = j

\* A retry is at its write of completed, the metadata written.
C24_Witness ==
    \E w \in Workers : /\ At(w, "complete")
                       /\ ws[w].retries >= 1
                       /\ jobs[JobOf(w)].meta = JobOf(w)
                       /\ jobs[JobOf(w)].status = "running"

\* C25: every row whose status is completed has progress 100.
C25_CompletedMeansProgress100 ==
    \A j \in JobIds : (Exists(j) /\ jobs[j].status = "completed") => jobs[j].progress = 100

\* A job was completed by a retry.
C25_Witness ==
    \E j \in JobIds : /\ Exists(j)
                      /\ jobs[j].status = "completed"
                      /\ jobs[j].progress = 100
                      /\ hist[j].attempts >= 2
                      /\ Ended(j)

\* C26: every job id of which a task is queued, is being executed or was
\* executed is the id of a request whose create_job_record succeeded; and a
\* request whose create_job_record failed was answered 500 and left no row
\* and no task.
C26_NoTaskWithoutRow ==
    \A j \in JobIds :
        /\ (Queued(j) \/ Executing(j) \/ hist[j].attempts >= 1) => hist[j].rowCreated
        /\ subPc[j] = "refused"
           => /\ hist[j].response = 500
              /\ ~hist[j].rowCreated
              /\ ~Exists(j)
              /\ ~Queued(j)
              /\ ~Executing(j)
              /\ hist[j].attempts = 0

\* One request failed to create its row; a later one created its row and its
\* task is queued.
C26_Witness ==
    \E i, j \in JobIds : /\ subPc[i] = "refused"
                         /\ hist[i].response = 500
                         /\ hist[j].rowCreated
                         /\ Queued(j)

\* C27 (as stated): when a sweep ends, no row is left in the store of a job
\* whose model directory the sweep removed.
C27_SweepIsAllOrNothing ==
    [][(cl.pc = "sweep" /\ cl'.pc = "idle")
          => \A j \in cl.removed : jobs'[j] = NoRow]_vars

\* C28: with store writes that succeed and a Trainer call that returns or
\* raises, a job whose task a worker has picked up, and so every job whose row
\* is running, eventually has a row that is completed or failed.
C28_PickedUpJobEndsTerminal ==
    \A j \in JobIds :
        /\ Executing(j) ~> (Exists(j) /\ jobs[j].status \in Terminal)
        /\ (Exists(j) /\ jobs[j].status = "running")
              ~> (Exists(j) /\ jobs[j].status \in Terminal)

\* The task of a job was picked up and has ended, the row completed or failed.
C28_Witness ==
    \E j \in JobIds : /\ hist[j].attempts = 1
                      /\ hist[j].outcome = "returned"
                      /\ ~Executing(j)
                      /\ Exists(j)
                      /\ jobs[j].status \in Terminal

\* C29: every write that changes a job's status also advances updated_at, so
\* the updated_at of a row is never older than the row's latest status change,
\* after the worker's writes and after the dispatch-failure write of a submission.
C29_UpdatedAtFollowsStatus ==
    \A j \in JobIds : Exists(j) => jobs[j].fresh

\* C30: download, export and test read a job's model directory only in a
\* request whose read of the row returned completed; a request that finds the
\* row pending, running or failed is answered with an error (400) and reads no
\* model directory, and a request for an id without a row is answered 404.
C30_ServeOnlyCompleted ==
    [][lastServe' # lastServe =>
          /\ lastServe'.read => (lastServe.pc = "artifact" /\ lastServe.status = "completed")
          /\ lastServe.pc # "artifact" =>
                /\ lastServe'.status = jobs[lastServe'.job].status
                /\ lastServe'.status \in {"pending", "running", "failed"}
                      => (lastServe'.pc = "done" /\ lastServe'.code = 400 /\ ~lastServe'.read)
                /\ lastServe'.status = "none"
                      => (lastServe'.pc = "done" /\ lastServe'.code = 404 /\ ~lastServe'.read)
                /\ lastServe'.pc = "artifact" => lastServe'.status = "completed"]_vars

\* A download of a running job's model was refused, the row holding the model's
\* path already.
C30_Witness ==
    /\ lastServe.pc = "done"
    /\ lastServe.op = "download"
    /\ lastServe.status = "running"
    /\ lastServe.code = 400
    /\ jobs[lastServe.job] # NoRow
    /\ jobs[lastServe.job].status = "running"
    /\ jobs[lastServe.job].meta # 0

====
